---------------------------- MODULE Spec2Model ----------------------------
(***************************************************************************)
(* Model of radijator-cli: one CLI invocation (main_radijator_cli) driving *)
(* a RadijatorRadio through download_fw, set_settings_profile,             *)
(* print_settings, set_memories and upload_fw.                             *)
(*                                                                         *)
(* The chirp driver and pyserial are external collaborators.  They are     *)
(* modelled by what the program asks of them: a serial handle that is open *)
(* or not, sync_in/sync_out copying a whole image between the device and   *)
(* the driver's in-memory image, get_memory/set_memory addressing one slot *)
(* by Memory.number, set_settings/get_settings storing and rebuilding the  *)
(* settings tree.  The verbose flag only adds prints and is left out.      *)
(***************************************************************************)
EXTENDS Integers, Sequences, FiniteSets, TLC

VARIABLES
    pc,          \* position of main_radijator_cli
    command,     \* args.command
    modelId,     \* args.radio_model
    fault,       \* the external operation that fails in this run ("none": no failure)
    bounds,      \* features.memory_bounds of the driver: <<lower, upper>>
    strict,      \* whether the driver's set_memory raises on a number outside memory_bounds
    memFiles,    \* args.memory: the parsed JSON content of every memory file, in order
    profileDoc,  \* the parsed JSON content of args.profile
    device,      \* the physical radio: [bank, settings]
    image,       \* the driver's in-memory image (self.radio), filled by sync_in
    settings,    \* self._settings
    profile,     \* the local `profile` of set_settings_profile
    visited,     \* the leaves the walk of set_settings_profile has visited, in order
    memories,    \* the local list `memories` of main_radijator_cli
    progCalls,   \* number of radio.set_memory calls made by the loop of set_memories
    openHandles, \* number of serial handles opened and not closed
    trace,       \* transport operations completed so far, in order
    error        \* what ended the run ("none" while it runs or after success)

vars == <<pc, command, modelId, fault, bounds, strict, memFiles, profileDoc,
          device, image, settings, profile, visited, memories, progCalls,
          openHandles, trace, error>>

(***************************************************************************)
(* Bounds of the model.                                                    *)
(***************************************************************************)
MaxLower == 2      \* memory_bounds[0] ranges over 0..MaxLower
MaxUpper == 2      \* memory_bounds[1] ranges over lower..MaxUpper
MaxFiles == 2      \* memory files given with -M
MaxPerFile == 2    \* entries per memory file
MaxLabels == 2     \* labels of a profile document

None == "None"

Commands == {"load-profile", "print-settings", "load-memory", "load-profile-and-memory"}

\* The registry as it would be with @register_radio on every class.
RADIO_MODEL_ID_CLASS_DICT_all_classes ==
    [id \in {"uv5r", "uv6r", "uv9r", "uv82", "uv25", "rt470x", "rt470"} |->
        [RESET_TIME |-> CASE id \in {"uv5r", "uv6r", "uv9r"} -> 6
                          [] id = "uv25" -> 4
                          [] id \in {"rt470x", "rt470"} -> 3
                          [] id = "uv82" -> 0]]

\* RADIO_MODEL_ID_CLASS_DICT after the decorators ran: only the decorated classes.
RADIO_MODEL_ID_CLASS_DICT ==
    [id \in {"uv5r", "uv25", "rt470x", "rt470"} |->
        [RESET_TIME |-> CASE id = "uv5r" -> 6
                          [] id = "uv25" -> 4
                          [] id = "rt470x" -> 3
                          [] id = "rt470" -> 3]]

\* Classes that are defined without @register_radio.
UnregisteredIds == {"uv6r", "uv9r", "uv82"}

(***************************************************************************)
(* Memories.                                                               *)
(***************************************************************************)
\* features.valid_power_levels[0]
DEFAULT_POWER_LEVEL == "High"

\* dict.get(key, default)
Get(data, key, default) == IF key \in DOMAIN data THEN data[key] ELSE default

\* RadijatorMemory.from_json; the caller guarantees the required keys.
from_json(data, power_level) ==
    [number       |-> Get(data, "number", None),
     name         |-> data["name"],
     freq         |-> data["frequency"],
     power_level  |-> power_level,
     tone         |-> Get(data, "tone", ""),
     rdcs_code    |-> Get(data, "rdcs_code", 23),
     tdcs_code    |-> Get(data, "tdcs_code", 23),
     dcs_polarity |-> Get(data, "dcs_polarity", "NN"),
     mode         |-> Get(data, "mode", "NFM"),
     tuning_step  |-> Get(data, "tuning_step", "5.0")]

\* to_chirp_memory without `mem.number = rad_mem.number`: the number stays the
\* 0 of a fresh chirp Memory.
to_chirp_memory_no_number(rad_mem) ==
    [number        |-> 0,
     name          |-> rad_mem.name,
     freq          |-> rad_mem.freq,
     power         |-> rad_mem.power_level,
     tmode         |-> rad_mem.tone,
     rx_dtcs       |-> rad_mem.rdcs_code,
     dtcs          |-> rad_mem.tdcs_code,
     dtcs_polarity |-> rad_mem.dcs_polarity,
     mode          |-> rad_mem.mode,
     tuning_step   |-> rad_mem.tuning_step,
     duplex        |-> "",
     offset        |-> 0,
     empty         |-> FALSE]

\* RadijatorMemory.to_chirp_memory
to_chirp_memory(rad_mem) ==
    [number        |-> rad_mem.number,
     name          |-> rad_mem.name,
     freq          |-> rad_mem.freq,
     power         |-> rad_mem.power_level,
     tmode         |-> rad_mem.tone,
     rx_dtcs       |-> rad_mem.rdcs_code,
     dtcs          |-> rad_mem.tdcs_code,
     dtcs_polarity |-> rad_mem.dcs_polarity,
     mode          |-> rad_mem.mode,
     tuning_step   |-> rad_mem.tuning_step,
     duplex        |-> "",
     offset        |-> 0,
     empty         |-> FALSE]

\* from_chirp_memory taking the rx code for the tx code and the tx code for
\* the rx code.
from_chirp_memory_swapped_dcs(mem) ==
    [number       |-> mem.number,
     name         |-> mem.name,
     freq         |-> mem.freq,
     power_level  |-> mem.power,
     tone         |-> "",
     rdcs_code    |-> mem.dtcs,
     tdcs_code    |-> mem.rx_dtcs,
     dcs_polarity |-> mem.dtcs_polarity,
     mode         |-> mem.mode,
     tuning_step  |-> mem.tuning_step]

\* RadijatorMemory.from_chirp_memory (tone is not passed: the constructor default "")
from_chirp_memory(mem) ==
    [number       |-> mem.number,
     name         |-> mem.name,
     freq         |-> mem.freq,
     power_level  |-> mem.power,
     tone         |-> "",
     rdcs_code    |-> mem.rx_dtcs,
     tdcs_code    |-> mem.dtcs,
     dcs_polarity |-> mem.dtcs_polarity,
     mode         |-> mem.mode,
     tuning_step  |-> mem.tuning_step]

\* What radio.get_memory(i) returns for an erased slot: a fresh chirp Memory,
\* numbered i and flagged empty.
EmptyMem(i) ==
    [number |-> i, name |-> "", freq |-> 0, power |-> None, tmode |-> "",
     rx_dtcs |-> 23, dtcs |-> 23, dtcs_polarity |-> "NN", mode |-> "FM",
     tuning_step |-> "5.0", duplex |-> "", offset |-> 0, empty |-> TRUE]

\* A channel left in slot i by an earlier programming of the device.
StaleMem(i) ==
    [number |-> i, name |-> "Old", freq |-> 145500, power |-> "Low", tmode |-> "DTCS",
     rx_dtcs |-> 71, dtcs |-> 71, dtcs_polarity |-> "RR", mode |-> "FM",
     tuning_step |-> "12.5", duplex |-> "+", offset |-> 600, empty |-> FALSE]

\* self.MEMORY_RANGE = range(lower_memory, upper_memory + 1)
MEMORY_RANGE(b) == b[1] .. b[2]

\* len(self.MEMORY_RANGE)
RangeSize(b) == b[2] - b[1] + 1

\* radio.get_memory(i)
get_memory(bank, i) == bank[i]

\* radio.set_memory(mem): the slot is addressed by mem.number; an empty memory
\* erases it.
set_memory(bank, mem) ==
    [bank EXCEPT ![mem.number] = IF mem.empty THEN EmptyMem(mem.number) ELSE mem]


\* Whether the driver's set_memory raises for this memory number.
DriverRejects(b, n, isStrict) == isStrict /\ n \notin MEMORY_RANGE(b)

\* RadijatorRadio._clear_memories: every index of MEMORY_RANGE is fetched,
\* flagged empty and written back.
RECURSIVE ClearFrom(_, _, _)
ClearFrom(bank, i, hi) ==
    IF i > hi THEN bank
    ELSE ClearFrom(set_memory(bank, [get_memory(bank, i) EXCEPT !.empty = TRUE]),
                   i + 1, hi)

\* _clear_memories over range(lower, upper): the last slot is left alone.
_clear_memories_short(bank, b) == ClearFrom(bank, b[1], b[2] - 1)

_clear_memories(bank, b) == ClearFrom(bank, b[1], b[2])

\* The loop of set_memories from its k-th iteration on.  st is
\* [bank, mems, calls, ok]: the image's bank, the list (whose elements the loop
\* renumbers), the set_memory calls made so far, and whether no call has raised.
RECURSIVE ProgramFrom(_, _, _, _)
ProgramFrom(st, k, b, isStrict) ==
    IF k > Len(st.mems) THEN st
    ELSE LET memory == [st.mems[k] EXCEPT !.number = k]
             chirp_memory == to_chirp_memory(memory)
             mems2 == [st.mems EXCEPT ![k] = memory]
         IN IF DriverRejects(b, chirp_memory.number, isStrict)
            THEN [st EXCEPT !.mems = mems2, !.calls = @ + 1, !.ok = FALSE]
            ELSE ProgramFrom([bank  |-> set_memory(st.bank, chirp_memory),
                              mems  |-> mems2,
                              calls |-> st.calls + 1,
                              ok    |-> TRUE],
                             k + 1, b, isStrict)

\* RadijatorRadio.set_memories(memories, verbose)
set_memories(bank, mems, b, isStrict) ==
    ProgramFrom([bank |-> _clear_memories(bank, b), mems |-> mems,
                 calls |-> 0, ok |-> TRUE],
                1, b, isStrict)

(***************************************************************************)
(* Settings.                                                               *)
(***************************************************************************)
EmptyDict == [k \in {} |-> None]

\* A dict assignment that keeps the value of a key that is already present.
PutIfAbsent(d, k, v) ==
    [x \in DOMAIN d \cup {k} |-> IF x \in DOMAIN d THEN d[x] ELSE v]

\* d[k] = v on a dict
Put(d, k, v) == [x \in DOMAIN d \cup {k} |-> IF x = k THEN v ELSE d[x]]

\* A profile document is [shape, items]: the JSON type of its top level and,
\* for an object, the sequence of its items.  An item is [label, shape, elems,
\* models]: the JSON type of the label's value, the elements of an array, and
\* for an object the mapping model id -> entry, an entry being a mapping that
\* has or lacks the keys name and value.
Raised(kind) == [ok |-> FALSE, profile |-> EmptyDict, error |-> kind]

\* The loop of _transpose_settings_profile over profile.items(), from the k-th
\* item on: [ok, profile, error], the dict built or the exception raised.
\*   `ID in model_settings` is a key test on an object, an element test on an
\*   array and a TypeError on a number; model_settings[ID] on an array is a
\*   TypeError; ["name"] and ["value"] on an entry without the key a KeyError.
RECURSIVE TransposeFrom(_, _, _, _)
TransposeFrom(doc, id, k, _profile) ==
    IF k > Len(doc) THEN [ok |-> TRUE, profile |-> _profile, error |-> "none"]
    ELSE LET setting_key == doc[k].label
             model_settings == doc[k].models
         IN CASE doc[k].shape = "number" -> Raised("TypeError")
              [] doc[k].shape = "array" ->
                    IF id \in doc[k].elems
                    THEN Raised("TypeError")
                    ELSE TransposeFrom(doc, id, k + 1, _profile)
              [] doc[k].shape = "object" ->
                    IF id \notin DOMAIN model_settings
                    THEN TransposeFrom(doc, id, k + 1, _profile)
                    ELSE IF {"name", "value"} \subseteq DOMAIN model_settings[id]
                    THEN TransposeFrom(doc, id, k + 1,
                            Put(_profile, model_settings[id].name,
                                [pretty_name |-> setting_key,
                                 value       |-> model_settings[id].value]))
                    ELSE Raised("KeyError")

\* _transpose_settings_profile looking up one fixed model id instead of the
\* class's RADIJATOR_SETTINGS_PROFILE_ID.
_transpose_fixed_model(doc, id) ==
    IF doc.shape # "object" THEN Raised("AttributeError")
    ELSE TransposeFrom(doc.items, "uv25", 1, EmptyDict)

\* RadijatorRadio._transpose_settings_profile for RADIJATOR_SETTINGS_PROFILE_ID
\* = id; profile.items() on a document that is no object is an AttributeError.
_transpose_settings_profile(doc, id) ==
    IF doc.shape # "object" THEN Raised("AttributeError")
    ELSE TransposeFrom(doc.items, id, 1, EmptyDict)

\* The groups and leaves of the driver's settings tree.
SettingsShape == << <<"squelch", "vox">>, <<"beep">> >>

SettingNames ==
    UNION {{SettingsShape[g][l] : l \in DOMAIN SettingsShape[g]} : g \in DOMAIN SettingsShape}

\* radio.get_settings(): the tree is rebuilt from the image.
get_settings(img) ==
    [g \in DOMAIN SettingsShape |->
        [l \in DOMAIN SettingsShape[g] |->
            [name  |-> SettingsShape[g][l],
             value |-> img.settings[SettingsShape[g][l]]]]]

\* settings.walk(): the leaves of the tree, as paths <<group, leaf>>, in order.
RECURSIVE WalkFrom(_, _)
WalkFrom(tree, g) ==
    IF g > Len(tree) THEN <<>>
    ELSE [l \in 1..Len(tree[g]) |-> <<g, l>>] \o WalkFrom(tree, g + 1)

walk(tree) == WalkFrom(tree, 1)

\* The value the tree gives the leaf called n.
LeafValue(tree, n) ==
    LET p == CHOOSE q \in {walk(tree)[k] : k \in DOMAIN walk(tree)} :
                 tree[q[1]][q[2]].name = n
    IN tree[p[1]][p[2]].value

\* radio.set_settings(settings): every leaf is stored into the image.
set_settings(img, tree) ==
    [img EXCEPT !.settings = [n \in DOMAIN @ |-> LeafValue(tree, n)]]

\* The loop body adding the profile's value to the leaf instead of storing it.
ApplyLeafAccumulate(tree, prof, p) ==
    LET setting == tree[p[1]][p[2]]
    IN IF setting.name \in DOMAIN prof
       THEN [tree EXCEPT ![p[1]][p[2]].value = @ + prof[setting.name].value]
       ELSE tree

\* The body of the loop of set_settings_profile for the leaf at path p.
ApplyLeaf(tree, prof, p) ==
    LET setting == tree[p[1]][p[2]]
    IN IF setting.name \in DOMAIN prof
       THEN [tree EXCEPT ![p[1]][p[2]].value = prof[setting.name].value]
       ELSE tree

\* The loop of set_settings_profile over the walk w, from its k-th leaf on.
RECURSIVE ApplyFrom(_, _, _, _)
ApplyFrom(tree, prof, w, k) ==
    IF k > Len(w) THEN tree
    ELSE ApplyFrom(ApplyLeaf(tree, prof, w[k]), prof, w, k + 1)

\* The loop stopping one leaf short of the end of the walk.
ApplyProfileSkipLast(tree, prof) ==
    ApplyFrom(tree, prof, SubSeq(walk(tree), 1, Len(walk(tree)) - 1), 1)

\* The loop of set_settings_profile: the tree after every leaf was visited.
ApplyProfile(tree, prof) == ApplyFrom(tree, prof, walk(tree), 1)

\* The names of the leaves in the order the loop visits them.
VisitOrder(tree) == [k \in DOMAIN walk(tree) |-> tree[walk(tree)[k][1]][walk(tree)[k][2]].name]

(***************************************************************************)
(* main_radijator_cli.                                                     *)
(***************************************************************************)
\* The test of wait_for_reset the wrong way round.
WaitForResetInverted(cmd) == cmd = "print-settings"

\* wait_for_reset=args.command != "print-settings"
WaitForReset(cmd) == cmd # "print-settings"

\* if args.command in ["load-profile", "load-profile-and-memory"]
WantsProfile(cmd) == cmd \in {"load-profile", "load-profile-and-memory"}

\* if args.command == "print-settings"
WantsPrint(cmd) == cmd = "print-settings"

\* if args.command in ["load-memory", "load-profile-and-memory"]
WantsMemory(cmd) == cmd \in {"load-memory", "load-profile-and-memory"}

\* upload_fw called without the test of the command.
WantsUploadAlways(cmd) == TRUE

\* if args.command != "print-settings"
WantsUpload(cmd) == cmd # "print-settings"

\* main calling upload_fw before the block that loads and programs the
\* memories.
StageFromUploadFirst(cmd, k) ==
    IF k < 1 /\ WantsProfile(cmd) THEN "profile"
    ELSE IF k < 2 /\ WantsPrint(cmd) THEN "print"
    ELSE IF k < 4 /\ WantsUpload(cmd) THEN "ul_open"
    ELSE "done"

\* The position main reaches when it has passed its first k guarded blocks:
\* the first later block whose guard holds, or the end.
StageFrom(cmd, k) ==
    IF k < 1 /\ WantsProfile(cmd) THEN "profile"
    ELSE IF k < 2 /\ WantsPrint(cmd) THEN "print"
    ELSE IF k < 3 /\ WantsMemory(cmd) THEN "load_mem"
    ELSE IF k < 4 /\ WantsUpload(cmd) THEN "ul_open"
    ELSE "done"

\* A transport operation, as recorded in the trace (t: the seconds slept).
Ev(op) == [op |-> op, t |-> 0]

\* An exception leaves main: the run ends with it.
Fail(kind) == pc' = "failed" /\ error' = kind

\* The entries of all files with the files taken last to first.
RECURSIVE FlattenLastFileFirst(_, _)
FlattenLastFileFirst(files, k) ==
    IF k > Len(files) THEN <<>> ELSE FlattenLastFileFirst(files, k + 1) \o files[k]

\* The entries of all files, in file order and each file's own order.
RECURSIVE Flatten(_, _)
Flatten(files, k) ==
    IF k > Len(files) THEN <<>> ELSE files[k] \o Flatten(files, k + 1)

RequiredKeys == {"name", "frequency"}

\* parser.parse_args() with choices=RADIO_MODEL_ID_CLASS_DICT.keys(), then the
\* construction of the radio class.
ParseArgs ==
    /\ pc = "start"
    /\ IF modelId \in DOMAIN RADIO_MODEL_ID_CLASS_DICT
       THEN pc' = "dl_open" /\ error' = error
       ELSE Fail("invalid choice")
    /\ UNCHANGED <<command, modelId, fault, bounds, strict, memFiles, profileDoc,
                   device, image, settings, profile, visited, memories, progCalls,
                   openHandles, trace>>

\* download_fw: pipe = self._open_serial(self._serial_port)
DlOpen ==
    /\ pc = "dl_open"
    /\ IF fault = "open_dl"
       THEN Fail("serial open") /\ UNCHANGED <<openHandles, trace>>
       ELSE /\ openHandles' = openHandles + 1
            /\ trace' = Append(trace, Ev("open"))
            /\ pc' = "dl_sync_in"
            /\ error' = error
    /\ UNCHANGED <<command, modelId, fault, bounds, strict, memFiles, profileDoc,
                   device, image, settings, profile, visited, memories, progCalls>>

\* download_fw: self.radio.sync_in()
DlSyncIn ==
    /\ pc = "dl_sync_in"
    /\ IF fault = "sync_in"
       THEN Fail("sync_in") /\ UNCHANGED <<image, trace>>
       ELSE /\ image' = device
            /\ trace' = Append(trace, Ev("sync_in"))
            /\ pc' = "dl_get_settings"
            /\ error' = error
    /\ UNCHANGED <<command, modelId, fault, bounds, strict, memFiles, profileDoc,
                   device, settings, profile, visited, memories, progCalls,
                   openHandles>>

\* download_fw: self._settings = self.radio.get_settings()
DlGetSettings ==
    /\ pc = "dl_get_settings"
    /\ IF fault = "get_settings"
       THEN Fail("get_settings") /\ UNCHANGED settings
       ELSE /\ settings' = get_settings(image)
            /\ pc' = IF WaitForReset(command) THEN "dl_wait" ELSE "dl_close"
            /\ error' = error
    /\ UNCHANGED <<command, modelId, fault, bounds, strict, memFiles, profileDoc,
                   device, image, profile, visited, memories, progCalls,
                   openHandles, trace>>

\* download_fw: time.sleep(self.RESET_TIME)
DlWait ==
    /\ pc = "dl_wait"
    /\ IF fault = "sleep"
       THEN Fail("interrupted") /\ UNCHANGED trace
       ELSE /\ trace' = Append(trace, [op |-> "wait",
                                       t  |-> RADIO_MODEL_ID_CLASS_DICT[modelId].RESET_TIME])
            /\ pc' = "dl_close"
            /\ error' = error
    /\ UNCHANGED <<command, modelId, fault, bounds, strict, memFiles, profileDoc,
                   device, image, settings, profile, visited, memories, progCalls,
                   openHandles>>

\* download_fw returning without self._close_serial(pipe).
DlCloseMissing ==
    /\ pc = "dl_close"
    /\ pc' = StageFrom(command, 0)
    /\ UNCHANGED <<command, modelId, fault, bounds, strict, memFiles, profileDoc,
                   device, image, settings, profile, visited, memories, progCalls,
                   openHandles, trace, error>>

\* download_fw: self._close_serial(pipe); main goes on to its first block.
DlClose ==
    /\ pc = "dl_close"
    /\ openHandles' = openHandles - 1
    /\ trace' = Append(trace, Ev("close"))
    /\ pc' = StageFrom(command, 0)
    /\ UNCHANGED <<command, modelId, fault, bounds, strict, memFiles, profileDoc,
                   device, image, settings, profile, visited, memories, progCalls,
                   error>>

\* radio.set_settings_profile(args.profile, args.verbose)
SetSettingsProfile ==
    /\ pc = "profile"
    /\ LET res  == _transpose_settings_profile(profileDoc, modelId)
           prof == res.profile
           tree == ApplyProfile(settings, prof)
           img  == set_settings(image, tree)
       IN IF res.ok
          THEN /\ profile' = prof
               /\ visited' = VisitOrder(settings)
               /\ image' = img
               /\ settings' = get_settings(img)
               /\ pc' = StageFrom(command, 1)
               /\ error' = error
          ELSE Fail(res.error) /\ UNCHANGED <<profile, visited, image, settings>>
    /\ UNCHANGED <<command, modelId, fault, bounds, strict, memFiles, profileDoc,
                   device, memories, progCalls, openHandles, trace>>

\* radio.print_settings(): prints, nothing else.
PrintSettings ==
    /\ pc = "print"
    /\ pc' = StageFrom(command, 2)
    /\ UNCHANGED <<command, modelId, fault, bounds, strict, memFiles, profileDoc,
                   device, image, settings, profile, visited, memories, progCalls,
                   openHandles, trace, error>>

\* The loop of main over args.memory: every entry of every file goes through
\* from_json, which raises KeyError on an entry without a required key.
LoadMemories ==
    /\ pc = "load_mem"
    /\ LET entries == Flatten(memFiles, 1)
       IN IF \A k \in DOMAIN entries : RequiredKeys \subseteq DOMAIN entries[k]
          THEN /\ memories' = [k \in DOMAIN entries |->
                                 from_json(entries[k], DEFAULT_POWER_LEVEL)]
               /\ pc' = "set_mem"
               /\ error' = error
          ELSE Fail("KeyError") /\ UNCHANGED memories
    /\ UNCHANGED <<command, modelId, fault, bounds, strict, memFiles, profileDoc,
                   device, image, settings, profile, visited, progCalls,
                   openHandles, trace>>

\* set_memories writing every slot through to the device instead of to the
\* cached image only.
SetMemoriesWriteThrough ==
    /\ pc = "set_mem"
    /\ LET r == set_memories(image.bank, memories, bounds, strict)
       IN /\ image' = [image EXCEPT !.bank = r.bank]
          /\ device' = [device EXCEPT !.bank = r.bank]
          /\ memories' = r.mems
          /\ progCalls' = r.calls
          /\ IF r.ok
             THEN pc' = StageFrom(command, 3) /\ error' = error
             ELSE Fail("set_memory out of range")
    /\ UNCHANGED <<command, modelId, fault, bounds, strict, memFiles, profileDoc,
                   settings, profile, visited, openHandles, trace>>

\* radio.set_memories(memories, args.verbose)
SetMemories ==
    /\ pc = "set_mem"
    /\ LET r == set_memories(image.bank, memories, bounds, strict)
       IN /\ image' = [image EXCEPT !.bank = r.bank]
          /\ memories' = r.mems
          /\ progCalls' = r.calls
          /\ IF r.ok
             THEN pc' = StageFrom(command, 3) /\ error' = error
             ELSE Fail("set_memory out of range")
    /\ UNCHANGED <<command, modelId, fault, bounds, strict, memFiles, profileDoc,
                   device, settings, profile, visited, openHandles, trace>>

\* upload_fw: pipe = self._open_serial(self._serial_port)
UlOpen ==
    /\ pc = "ul_open"
    /\ IF fault = "open_ul"
       THEN Fail("serial open") /\ UNCHANGED <<openHandles, trace>>
       ELSE /\ openHandles' = openHandles + 1
            /\ trace' = Append(trace, Ev("open"))
            /\ pc' = "ul_sync_out"
            /\ error' = error
    /\ UNCHANGED <<command, modelId, fault, bounds, strict, memFiles, profileDoc,
                   device, image, settings, profile, visited, memories, progCalls>>

\* upload_fw: self.radio.sync_out()
UlSyncOut ==
    /\ pc = "ul_sync_out"
    /\ IF fault = "sync_out"
       THEN Fail("sync_out") /\ UNCHANGED <<device, trace>>
       ELSE /\ device' = image
            /\ trace' = Append(trace, Ev("sync_out"))
            /\ pc' = "ul_close"
            /\ error' = error
    /\ UNCHANGED <<command, modelId, fault, bounds, strict, memFiles, profileDoc,
                   image, settings, profile, visited, memories, progCalls,
                   openHandles>>

\* upload_fw: self._close_serial(pipe); main returns.
UlClose ==
    /\ pc = "ul_close"
    /\ openHandles' = openHandles - 1
    /\ trace' = Append(trace, Ev("close"))
    /\ pc' = "done"
    /\ UNCHANGED <<command, modelId, fault, bounds, strict, memFiles, profileDoc,
                   device, image, settings, profile, visited, memories, progCalls,
                   error>>

(***************************************************************************)
(* Inputs and specifications.                                              *)
(***************************************************************************)
\* The slots a bank is modelled over: the addressable ranges and every number
\* the loop of set_memories can reach.
SlotTop == IF MaxUpper > MaxFiles * MaxPerFile THEN MaxUpper ELSE MaxFiles * MaxPerFile
Slots == 0 .. SlotTop

\* Sequences over S of length lo..hi.
SeqsOf(S, lo, hi) == UNION {[1..n -> S] : n \in lo..hi}

\* Entries of a memory file.
EntryA == [name |-> "Ch1", frequency |-> 446000000]
EntryB == [name |-> "Ch2", frequency |-> 145500000, number |-> 7, tone |-> "DTCS",
           rdcs_code |-> 25, tdcs_code |-> 26, dcs_polarity |-> "RN",
           mode |-> "FM", tuning_step |-> "12.5"]

\* The contents of a memory file: up to MaxPerFile entries, EntryA and EntryB
\* in turn, starting with either.
FileContents ==
    {<<>>} \cup
    {[k \in 1..n |-> IF (k % 2 = 1) = first THEN EntryA ELSE EntryB] :
        first \in BOOLEAN, n \in 1..MaxPerFile}

\* Banks a device can hold before the run: an earlier list filled slots 0..t.
PriorBanks ==
    {[i \in Slots |-> IF i <= t THEN StaleMem(i) ELSE EmptyMem(i)] : t \in (0 - 1)..MaxUpper}

AllBounds == {<<lo, hi>> : lo \in 0..MaxLower, hi \in 0..MaxUpper} \cap
             {b \in (0..MaxLower) \X (0..MaxUpper) : b[1] <= b[2]}

Faults == {"none", "open_dl", "sync_in", "get_settings", "sleep", "open_ul", "sync_out"}

\* What a label of a profile document can map to: any subset of the ids used in
\* documents, each with a setting name and a value.
DocIds == {"uv5r", "uv25"}
DocNames == {"squelch", "beep", "nosuch"}
DocValues == {1, 2}
DocLabels == <<"Squelch", "Beep tone", "Roger", "Vox">>

\* The uv5r entry of a label is any name and value; its uv25 entry, when
\* present, is one fixed setting.
ModelSettings ==
    {f \in UNION {[ids -> [name : DocNames, value : DocValues]] : ids \in SUBSET DocIds} :
        "uv25" \in DOMAIN f => f["uv25"] = [name |-> "beep", value |-> 1]}

\* Documents of n labels (the keys of a JSON object are distinct).
Item(label, models) ==
    [label |-> label, shape |-> "object", elems |-> {}, models |-> models]

DocsOfLen(n) ==
    {[shape |-> "object", items |-> [k \in 1..n |-> Item(DocLabels[k], f[k])]] :
        f \in [1..n -> ModelSettings]}

NoImage == [bank |-> EmptyDict, settings |-> EmptyDict]

InitWith(cmds, ids, faults, bs, stricts, filesets, docs, banks, devsettings) ==
    /\ pc = "start"
    /\ command \in cmds
    /\ modelId \in ids
    /\ fault \in faults
    /\ bounds \in bs
    /\ strict \in stricts
    /\ memFiles \in filesets
    /\ profileDoc \in docs
    /\ device \in [bank : banks, settings : devsettings]
    /\ image = NoImage
    /\ settings = <<>>
    /\ profile = EmptyDict
    /\ visited = <<>>
    /\ memories = <<>>
    /\ progCalls = 0
    /\ openHandles = 0
    /\ trace = <<>>
    /\ error = "none"

SampleDoc ==
    [shape |-> "object",
     items |-> << Item("Squelch", [id \in {"uv5r", "uv25"} |-> [name |-> "squelch", value |-> 2]]) >>]

SampleSettings == [n \in SettingNames |-> 0]

\* Documents json.load accepts that are no mapping of mappings:
\*   []   {"Squelch": 5}   {"Squelch": ["x"]}   {"Squelch": ["uv5r"]}
\*   {"Squelch": {"uv5r": {"name": "squelch"}}}
BadItem(shape, elems) ==
    [label |-> "Squelch", shape |-> shape, elems |-> elems, models |-> EmptyDict]

MalformedDocs ==
    { [shape |-> "array", items |-> <<>>],
      [shape |-> "object", items |-> << BadItem("number", {}) >>],
      [shape |-> "object", items |-> << BadItem("array", {"x"}) >>],
      [shape |-> "object", items |-> << BadItem("array", {"uv5r"}) >>],
      [shape |-> "object",
       items |-> << Item("Squelch", [id \in {"uv5r"} |-> [name |-> "squelch"]]) >>] }

\* A memory entry without the key frequency.
EntryNoFrequency == [name |-> "Ch3"]

\* Every command, every model id and every failure point, on few data, well
\* formed or not.
Init ==
    InitWith(Commands,
             DOMAIN RADIO_MODEL_ID_CLASS_DICT \cup UnregisteredIds \cup {"zz99"},
             Faults,
             {<<0, 1>>, <<1, 2>>},
             BOOLEAN,
             {<< <<EntryA>> >>, << <<EntryA, EntryB>>, <<EntryB>> >>,
              << <<EntryA, EntryNoFrequency>> >>},
             {SampleDoc} \cup MalformedDocs,
             {[i \in Slots |-> IF i <= 1 THEN StaleMem(i) ELSE EmptyMem(i)]},
             {SampleSettings})

Next ==
    \/ ParseArgs
    \/ DlOpen
    \/ DlSyncIn
    \/ DlGetSettings
    \/ DlWait
    \/ DlClose
    \/ SetSettingsProfile
    \/ PrintSettings
    \/ LoadMemories
    \/ SetMemories
    \/ UlOpen
    \/ UlSyncOut
    \/ UlClose

Spec == Init /\ [][Next]_vars

\* load-memory without failures, over every list of files, memory bounds,
\* driver behaviour and prior bank.
InitMem ==
    InitWith({"load-memory"},
             {"uv5r"},
             {"none"},
             AllBounds,
             BOOLEAN,
             SeqsOf(FileContents, 1, MaxFiles),
             {SampleDoc},
             PriorBanks,
             {SampleSettings})

NextMem ==
    \/ ParseArgs
    \/ DlOpen
    \/ DlSyncIn
    \/ DlGetSettings
    \/ DlWait
    \/ DlClose
    \/ LoadMemories
    \/ SetMemories
    \/ UlOpen
    \/ UlSyncOut
    \/ UlClose

SpecMem == InitMem /\ [][NextMem]_vars

\* load-profile without failures, over every document and every settings image.
InitProfile ==
    InitWith({"load-profile"},
             {"uv5r", "uv25", "rt470"},
             {"none"},
             {<<0, 1>>},
             {TRUE},
             {<< <<EntryA>> >>},
             UNION {DocsOfLen(n) : n \in 0..MaxLabels},
             {[i \in Slots |-> EmptyMem(i)]},
             [SettingNames -> {0, 1}])

NextProfile ==
    \/ ParseArgs
    \/ DlOpen
    \/ DlSyncIn
    \/ DlGetSettings
    \/ DlWait
    \/ DlClose
    \/ SetSettingsProfile
    \/ UlOpen
    \/ UlSyncOut
    \/ UlClose

SpecProfile == InitProfile /\ [][NextProfile]_vars

(***************************************************************************)
(* Properties.                                                             *)
(***************************************************************************)
\* The operations of the trace, without their arguments.
Ops == [k \in DOMAIN trace |-> trace[k].op]

Count(op) == Cardinality({k \in DOMAIN trace : trace[k].op = op})

IsPrefix(s, t) == Len(s) <= Len(t) /\ \A k \in DOMAIN s : s[k] = t[k]

\* The list main hands to set_memories, as read from the files.
InputRecords ==
    LET entries == Flatten(memFiles, 1)
    IN [k \in DOMAIN entries |-> from_json(entries[k], DEFAULT_POWER_LEVEL)]

\* set_memories has returned or raised.
MemDone ==
    /\ WantsMemory(command)
    /\ \/ pc \in {"ul_open", "ul_sync_out", "ul_close", "done"}
       \/ pc = "failed" /\ error \in {"set_memory out of range", "serial open", "sync_out"}
                        /\ Len(trace) >= 3

\* set_settings_profile has returned and sync_out has not run yet, so that
\* `device` still is what sync_in read.
ProfileDone == WantsProfile(command) /\ visited # <<>> /\ Count("sync_out") = 0

\* The wire-level memory mem is the record r, written as number i.
HoldsRecord(mem, r, i) ==
    /\ ~mem.empty
    /\ mem.number = i
    /\ mem.name = r.name
    /\ mem.freq = r.freq
    /\ mem.power = r.power_level
    /\ mem.tmode = r.tone
    /\ mem.rx_dtcs = r.rdcs_code
    /\ mem.dtcs = r.tdcs_code
    /\ mem.dtcs_polarity = r.dcs_polarity
    /\ mem.mode = r.mode
    /\ mem.tuning_step = r.tuning_step
    /\ mem.duplex = ""
    /\ mem.offset = 0

\* C1: when a run of download_fw or upload_fw ends with an error, whatever the
\* point of failure, no serial handle is left open.
C1_ClosedBeforeErrorSurfaces == pc = "failed" => openHandles = 0

SessionOps(cmd) ==
    IF cmd = "print-settings"
    THEN <<"open", "sync_in", "close">>
    ELSE <<"open", "sync_in", "wait", "close", "open", "sync_out", "close">>

C3_OversizedListRejected ==
    (MemDone /\ Len(InputRecords) > RangeSize(bounds))
        => (pc = "failed" /\ error = "MemoryRangeExceeded" /\ progCalls = 0)

\* What C4 says of the bank after set_memories was given the list R.
ProgrammedInOrder(R) ==
    /\ pc # "failed"
    /\ \A i \in 1..Len(R) : /\ i \in MEMORY_RANGE(bounds)
                            /\ HoldsRecord(image.bank[i], R[i], i)
    /\ \A i \in MEMORY_RANGE(bounds) : i > Len(R) => image.bank[i].empty

\* C4 as stated: for every list no longer than the range size (upper - lower
\* + 1, whatever the lower bound), slot i holds R[i-1] numbered i, every
\* written slot is inside the range and the slots beyond len(R) are empty.
C4_RangeSizeListProgrammed ==
    (MemDone /\ Len(InputRecords) <= RangeSize(bounds)) => ProgrammedInOrder(InputRecords)

\* C4 (amended): for every list no longer than the upper memory bound, on a
\* model whose lower bound is 0 or 1, slot i holds R[i-1] numbered i whatever
\* number the input gave, every written slot is inside the range, and every
\* other slot of the range is empty.
C4_UpperBoundListProgrammed ==
    (MemDone /\ Len(InputRecords) <= bounds[2] /\ bounds[1] <= 1)
        => /\ ProgrammedInOrder(InputRecords)
           /\ progCalls = Len(InputRecords)
           /\ \A i \in MEMORY_RANGE(bounds) : i < 1 => image.bank[i].empty

C4_Witness ==
    /\ MemDone
    /\ bounds = <<0, 2>>
    /\ Len(InputRecords) = 2
    /\ "number" \in DOMAIN Flatten(memFiles, 1)[1]
    /\ image.bank[1].name = "Ch2"
    /\ ~device.bank[2].empty

\* C5: the bank set_memories leaves depends on the list only: started from any
\* other prior bank, it ends equal to this run's bank in every slot of the
\* addressable range.
C5_ResultIndependentOfPriorBank ==
    MemDone =>
        LET R == InputRecords
        IN \A b \in PriorBanks :
              LET other == set_memories(b, R, bounds, strict).bank
              IN \A i \in MEMORY_RANGE(bounds) : other[i] = image.bank[i]

C5_Witness ==
    /\ MemDone
    /\ pc = "ul_open"
    /\ \E i \in MEMORY_RANGE(bounds) :
          i > Len(InputRecords) /\ ~device.bank[i].empty /\ image.bank[i].empty
    /\ Len(InputRecords) >= 1

\* The leaves of a tree, as paths.
Paths(tree) == {walk(tree)[k] : k \in DOMAIN walk(tree)}

\* C6: after set_settings_profile every leaf named by a key of the transposed
\* profile has the profile's value, every other leaf has the value the device
\* reported, and the walk visited every leaf exactly once.
C6_OnlyProfileKeysOverwritten ==
    ProfileDone =>
        LET before == get_settings(device)
        IN /\ Paths(settings) = Paths(before)
           /\ \A p \in Paths(settings) :
                 LET leaf == settings[p[1]][p[2]]
                     old  == before[p[1]][p[2]]
                 IN /\ leaf.name = old.name
                    /\ leaf.value = IF leaf.name \in DOMAIN profile
                                    THEN profile[leaf.name].value
                                    ELSE old.value
           /\ \A n \in SettingNames :
                 Cardinality({k \in DOMAIN visited : visited[k] = n}) = 1
           /\ Len(visited) = Cardinality(SettingNames)

C6_Witness ==
    /\ ProfileDone
    /\ "squelch" \in DOMAIN profile
    /\ "beep" \notin DOMAIN profile
    /\ device.settings["squelch"] # profile["squelch"].value
    /\ settings[1][1].value = profile["squelch"].value
    /\ settings[2][1].value = 1

\* C7: applying the transposed profile to the tree a second time leaves every
\* leaf as the first application left it.
C7_ApplyTwiceIsApplyOnce ==
    ProfileDone =>
        /\ ApplyProfile(settings, profile) = settings
        /\ get_settings(set_settings(image, ApplyProfile(settings, profile))) = settings

C7_Witness ==
    /\ ProfileDone
    /\ \E n \in DOMAIN profile \cap SettingNames : device.settings[n] # profile[n].value
    /\ settings # get_settings(device)

\* C8: every key of the transposed profile is the setting name of a label that
\* has an entry for the model, and its entry carries that label and that
\* entry's value; a document without entries for the model gives no key.
C8_KeysComeFromModelEntries ==
    ProfileDone =>
        /\ \A key \in DOMAIN profile :
              \E k \in DOMAIN profileDoc.items :
                 /\ modelId \in DOMAIN profileDoc.items[k].models
                 /\ profileDoc.items[k].models[modelId].name = key
                 /\ profile[key].pretty_name = profileDoc.items[k].label
                 /\ profile[key].value = profileDoc.items[k].models[modelId].value
        /\ (\A k \in DOMAIN profileDoc.items : modelId \notin DOMAIN profileDoc.items[k].models)
              => DOMAIN profile = {}

C8_Witness ==
    /\ ProfileDone
    /\ DOMAIN profile = {"squelch"}
    /\ Len(profileDoc.items) = 2
    /\ \E k \in DOMAIN profileDoc.items : DOMAIN profileDoc.items[k].models = {"uv25"}
    /\ modelId = "uv5r"

\* C9: for every command but print-settings, the operation that follows
\* sync_in is the wait of the model's reset delay, and the run does not get
\* past download_fw's sleep without having waited.
C9_ResetWaitFollowsSyncIn ==
    command # "print-settings" =>
        /\ \A k \in DOMAIN trace :
              (trace[k].op = "sync_in" /\ k < Len(trace))
                  => trace[k + 1] = [op |-> "wait",
                                     t  |-> RADIO_MODEL_ID_CLASS_DICT[modelId].RESET_TIME]
        /\ pc \in {"dl_close", "profile", "load_mem", "set_mem", "ul_open",
                   "ul_sync_out", "ul_close", "done"} => Count("wait") = 1

C9_Witness ==
    /\ command = "load-memory"
    /\ modelId = "uv25"
    /\ pc = "ul_sync_out"
    /\ trace[3] = [op |-> "wait", t |-> 4]

\* C10: print-settings never calls sync_out, and a run of any other command
\* that completes has called it.
C10_SyncOutOnlyWhenWriting ==
    /\ command = "print-settings"
          => Count("sync_out") = 0 /\ pc \notin {"ul_open", "ul_sync_out", "ul_close"}
    /\ (pc = "done" /\ command # "print-settings") => Count("sync_out") = 1

C10_Witness == pc = "done" /\ command = "print-settings" /\ Count("sync_in") = 1

\* C11: a model id that is not in the registry (uv6r, uv9r and uv82 have a
\* class but no registration) is refused as an invalid choice before any
\* transport is opened: the run performs no device operation at all.
C11_UnregisteredModelRejected ==
    modelId \in UnregisteredIds \cup {"zz99"} =>
        /\ pc \in {"start", "failed"}
        /\ pc = "failed" => error = "invalid choice"
        /\ trace = <<>>
        /\ openHandles = 0
        /\ image = NoImage

C11_Witness ==
    /\ modelId = "uv82"
    /\ pc = "failed"
    /\ error = "invalid choice"
    /\ trace = <<>>

\* The document is what the specification calls malformed: its top level is
\* no mapping, a label's value is no mapping, or a model entry lacks name or
\* value.
Malformed(doc) ==
    \/ doc.shape # "object"
    \/ \E k \in DOMAIN doc.items :
          \/ doc.items[k].shape # "object"
          \/ \E id \in DOMAIN doc.items[k].models :
                ~({"name", "value"} \subseteq DOMAIN doc.items[k].models[id])

\* The run was given input the specification calls invalid.
InvalidInput ==
    \/ modelId \notin DOMAIN RADIO_MODEL_ID_CLASS_DICT
    \/ WantsProfile(command) /\ Malformed(profileDoc)
    \/ /\ WantsMemory(command)
       /\ LET entries == Flatten(memFiles, 1)
          IN \/ Len(entries) > RangeSize(bounds)
             \/ \E k \in DOMAIN entries : ~(RequiredKeys \subseteq DOMAIN entries[k])

\* C12: a run on invalid input (malformed profile document, unknown model id,
\* oversized memory list, memory entry without a required key) never reaches
\* sync_out, so the device is never written.
C12_InvalidInputNeverSynced == InvalidInput => Count("sync_out") = 0

\* set_settings_profile has been called: download_fw has closed and the run is
\* past the profile stage.
ProfileAttempted ==
    /\ WantsProfile(command)
    /\ Count("close") >= 1
    /\ pc # "profile"

\* C13: transposing a malformed document fails with ProfileFormatError and
\* returns no transposed profile, so nothing of it is applied.
C13_MalformedDocumentIsProfileFormatError ==
    (ProfileAttempted /\ Malformed(profileDoc)) =>
        /\ pc = "failed"
        /\ error = "ProfileFormatError"
        /\ visited = <<>>

\* The stages of main between download_fw and upload_fw, where the settings
\* reconciler and the memory programmer run.
ComputeStages == {"profile", "print", "load_mem", "set_mem"}

ComputeStepIsLocal ==
    pc \in ComputeStages =>
        (device' = device /\ trace' = trace /\ openHandles' = openHandles)

ItemsNaming(key) ==
    {k \in DOMAIN profileDoc.items :
        /\ modelId \in DOMAIN profileDoc.items[k].models
        /\ profileDoc.items[k].models[modelId].name = key}

Last(S) == CHOOSE k \in S : \A j \in S : j <= k

\* C15: the transposed profile has one entry per internal name, and when
\* several labels give the target model the same name the entry carries the
\* label and value of the last of them in document order; the run goes on.
C15_LaterLabelWins ==
    ProfileDone =>
        /\ pc # "failed"
        /\ \A key \in DOMAIN profile :
              LET last == profileDoc.items[Last(ItemsNaming(key))]
              IN profile[key] = [pretty_name |-> last.label,
                                 value       |-> last.models[modelId].value]
        /\ \A k \in DOMAIN profileDoc.items :
              modelId \in DOMAIN profileDoc.items[k].models
                 => profileDoc.items[k].models[modelId].name \in DOMAIN profile

C15_Witness ==
    /\ ProfileDone
    /\ Cardinality(ItemsNaming("squelch")) = 2
    /\ profileDoc.items[1].models[modelId].value # profileDoc.items[2].models[modelId].value
    /\ DOMAIN profile = {"squelch"}
    /\ profile["squelch"].pretty_name = profileDoc.items[2].label
    /\ profile["squelch"].value = profileDoc.items[2].models[modelId].value
    /\ image.settings["squelch"] = profileDoc.items[2].models[modelId].value

(***************************************************************************)
(* The conversions of RadijatorMemory on device-read memories.             *)
(***************************************************************************)
\* Memories as radio.get_memory returns them, in use or erased, simplex or
\* with a repeater shift.
DeviceMemories ==
    [number : 0..MaxUpper, name : {"", "Ch1"}, freq : {145500000}, power : {"High", "Low"},
     tmode : {"", "DTCS"}, rx_dtcs : {23, 25}, dtcs : {23, 26},
     dtcs_polarity : {"NN", "RN"}, mode : {"NFM"}, tuning_step : {"5.0", "12.5"},
     duplex : {"", "+"}, offset : {0, 600000}, empty : BOOLEAN]

\* The image after sync_in holds one memory m in the slot of its number.
InitRoundTrip ==
    /\ pc = "rt_from"
    /\ command = "load-memory"
    /\ modelId = "uv5r"
    /\ fault = "none"
    /\ bounds = <<0, MaxUpper>>
    /\ strict = TRUE
    /\ memFiles = <<>>
    /\ profileDoc = SampleDoc
    /\ \E m \in DeviceMemories :
          device = [bank |-> [i \in Slots |-> IF i = m.number THEN m ELSE EmptyMem(i)],
                    settings |-> SampleSettings]
    /\ image = device
    /\ settings = <<>>
    /\ profile = EmptyDict
    /\ visited = <<>>
    /\ memories = <<>>
    /\ progCalls = 0
    /\ openHandles = 0
    /\ trace = <<>>
    /\ error = "none"

\* RadijatorMemory.from_chirp_memory(radio.get_memory(i))
FromChirpMemory ==
    /\ pc = "rt_from"
    /\ \E i \in MEMORY_RANGE(bounds) :
          memories' = << from_chirp_memory(get_memory(image.bank, i)) >>
    /\ pc' = "rt_to"
    /\ UNCHANGED <<command, modelId, fault, bounds, strict, memFiles, profileDoc,
                   device, image, settings, profile, visited, progCalls,
                   openHandles, trace, error>>

\* memory.to_chirp_memory(), kept in the image in place of the memory read
ToChirpMemory ==
    /\ pc = "rt_to"
    /\ image' = [image EXCEPT !.bank[memories[1].number] = to_chirp_memory(memories[1])]
    /\ pc' = "rt_done"
    /\ UNCHANGED <<command, modelId, fault, bounds, strict, memFiles, profileDoc,
                   device, settings, profile, visited, memories, progCalls,
                   openHandles, trace, error>>

NextRoundTrip ==
    \/ FromChirpMemory
    \/ ToChirpMemory

SpecRoundTrip == InitRoundTrip /\ [][NextRoundTrip]_vars

\* C16: for a device-read memory m (in device.bank), the memory
\* to_chirp_memory(from_chirp_memory(m)) (in image.bank) equals m in number,
\* name, frequency, power level, rx and tx DCS code, DCS polarity, mode and
\* tuning step, and has duplex "", offset 0 and empty false.
C16_RoundTripKeepsSharedFields ==
    pc = "rt_done" =>
        LET i == memories[1].number
            m == device.bank[i]
            back == image.bank[i]
        IN /\ back.number = m.number
           /\ back.name = m.name
           /\ back.freq = m.freq
           /\ back.power = m.power
           /\ back.rx_dtcs = m.rx_dtcs
           /\ back.dtcs = m.dtcs
           /\ back.dtcs_polarity = m.dtcs_polarity
           /\ back.mode = m.mode
           /\ back.tuning_step = m.tuning_step
           /\ back.duplex = ""
           /\ back.offset = 0
           /\ back.empty = FALSE

C16_Witness ==
    /\ pc = "rt_done"
    /\ LET m == device.bank[memories[1].number]
       IN /\ m.duplex = "+"
          /\ m.offset = 600000
          /\ m.empty
          /\ m.rx_dtcs = 25
          /\ m.dtcs = 26
          /\ m.tmode = "DTCS"
          /\ image.bank[m.number] # m

\* The number of entries in the files given before the f-th.
RECURSIVE EntriesBefore(_)
EntriesBefore(f) == IF f <= 1 THEN 0 ELSE EntriesBefore(f - 1) + Len(memFiles[f - 1])

\* The record the specification documents for a file entry e, its number aside.
DocumentedRecord(e) ==
    [number       |-> 0,
     name         |-> e.name,
     freq         |-> e.frequency,
     power_level  |-> DEFAULT_POWER_LEVEL,
     tone         |-> IF "tone" \in DOMAIN e THEN e.tone ELSE "",
     rdcs_code    |-> IF "rdcs_code" \in DOMAIN e THEN e.rdcs_code ELSE 23,
     tdcs_code    |-> IF "tdcs_code" \in DOMAIN e THEN e.tdcs_code ELSE 23,
     dcs_polarity |-> IF "dcs_polarity" \in DOMAIN e THEN e.dcs_polarity ELSE "NN",
     mode         |-> IF "mode" \in DOMAIN e THEN e.mode ELSE "NFM",
     tuning_step  |-> IF "tuning_step" \in DOMAIN e THEN e.tuning_step ELSE "5.0"]

\* The memory files have been read.
MemoriesLoaded ==
    /\ WantsMemory(command)
    /\ \/ pc \in {"set_mem", "ul_open", "ul_sync_out", "ul_close", "done"}
       \/ pc = "failed" /\ error = "set_memory out of range"

\* C17: the list handed to set_memories has the j-th entry of the f-th file at
\* the position (entries of the files before f) + j, each as the record with
\* the model's default power level and the documented defaults for the
\* optional keys it lacks, and every set_memory call the driver accepted wrote
\* the k-th record of the list to slot k.
C17_FilesConcatenatedInOrder ==
    MemoriesLoaded =>
        /\ Len(memories) = EntriesBefore(Len(memFiles) + 1)
        /\ \A f \in DOMAIN memFiles : \A j \in DOMAIN memFiles[f] :
              LET k == EntriesBefore(f) + j
                  r == DocumentedRecord(memFiles[f][j])
              IN /\ [memories[k] EXCEPT !.number = 0] = r
                 /\ (k < progCalls \/ (k = progCalls /\ pc # "failed"))
                       => HoldsRecord(image.bank[k], r, k)
        /\ pc \notin {"set_mem", "failed"} => progCalls = Len(memories)

C17_Witness ==
    /\ MemoriesLoaded
    /\ pc = "done"
    /\ bounds = <<0, 2>>
    /\ Len(memFiles) = 2
    /\ Len(memFiles[1]) = 1
    /\ Len(memFiles[2]) = 1
    /\ "number" \in DOMAIN memFiles[1][1]
    /\ "number" \notin DOMAIN memFiles[2][1]
    /\ device.bank[1].name = "Ch2"
    /\ device.bank[2].name = "Ch1"
    /\ device.bank[2].rx_dtcs = 23
    /\ device.bank[2].mode = "NFM"
    /\ device.bank[2].tuning_step = "5.0"
    /\ device.bank[2].power = DEFAULT_POWER_LEVEL

\* sync_out has started or is the next operation of the run.
SyncOutStarted == pc = "ul_sync_out" \/ Count("sync_out") >= 1

\* Nothing is done after a failure.
FailureIsFinal == pc = "failed" => UNCHANGED vars

\* C18: sync_in and sync_out complete at most once each, sync_out only after
\* sync_in; in load-profile-and-memory the profile is applied before any
\* memory is cleared or programmed, and profile and memories are both done
\* when sync_out starts; a failed run takes no further step.
C18_StepsInOrderWithoutRetry ==
    /\ [](/\ Count("sync_in") <= 1
          /\ Count("sync_out") <= 1
          /\ \A k \in DOMAIN trace :
                trace[k].op = "sync_out" => \E i \in 1..(k - 1) : trace[i].op = "sync_in"
          /\ pc \in {"ul_open", "ul_sync_out"} => Count("sync_in") = 1)
    /\ [](command = "load-profile-and-memory" =>
            /\ pc = "profile" =>
                  memories = <<>> /\ progCalls = 0 /\ image.bank = device.bank
            /\ pc \in {"load_mem", "set_mem"} => visited # <<>> /\ ~SyncOutStarted
            /\ SyncOutStarted =>
                  /\ visited # <<>>
                  /\ progCalls = Len(Flatten(memFiles, 1))
                  /\ progCalls = Len(memories)
                  /\ progCalls >= 1)
    /\ [][FailureIsFinal]_vars

C18_Witness ==
    /\ command = "load-profile-and-memory"
    /\ pc = "done"
    /\ Ops = <<"open", "sync_in", "wait", "close", "open", "sync_out", "close">>
    /\ device.settings # SampleSettings
    /\ device.bank[1].name = "Ch1"

(***************************************************************************)
(* random-dcs-assign.                                                      *)
(***************************************************************************)
\* chirp's DTCS_CODES: some codes of the table.
DCS_CODES == {23, 25, 71}

DCS_POLARITIES == {"NN", "RR"}

DcsKeys == {"tone", "rdcs_code", "tdcs_code", "dcs_polarity"}

\* The loop body with the tx code left at the first code of the table.
AssignDcsRxOnly(memory, dcs_code, dcs_polarity) ==
    [x \in DOMAIN memory \cup DcsKeys |->
        CASE x = "tone" -> "DTCS"
          [] x = "rdcs_code" -> dcs_code
          [] x = "tdcs_code" -> 23
          [] x = "dcs_polarity" -> dcs_polarity
          [] OTHER -> memory[x]]

\* The body of the loop of main_random_dcs_assign: the four assignments to
\* memory[...], every other key of the mapping left as it is.
AssignDcs(memory, dcs_code, dcs_polarity) ==
    [x \in DOMAIN memory \cup DcsKeys |->
        CASE x = "tone" -> "DTCS"
          [] x = "rdcs_code" -> dcs_code
          [] x = "tdcs_code" -> dcs_code
          [] x = "dcs_polarity" -> dcs_polarity
          [] OTHER -> memory[x]]

\* The command lines of random-dcs-assign: with and without -i and -o.
DcsCommands == {"-i -o", "-i", "-o"}

\* memFiles[1] is the content of the input file; the output file does not
\* exist yet.
InitDcs ==
    /\ pc = "dcs_start"
    /\ command \in DcsCommands
    /\ modelId = "uv5r"
    /\ fault = "none"
    /\ bounds = <<0, MaxUpper>>
    /\ strict = TRUE
    /\ memFiles \in {<<f>> : f \in FileContents}
    /\ profileDoc = SampleDoc
    /\ device = [bank |-> [i \in Slots |-> EmptyMem(i)], settings |-> SampleSettings]
    /\ image = NoImage
    /\ settings = <<>>
    /\ profile = EmptyDict
    /\ visited = <<>>
    /\ memories = <<>>
    /\ progCalls = 0
    /\ openHandles = 0
    /\ trace = <<>>
    /\ error = "none"

\* args = parser.parse_args(); if not args.input / if not args.output: raise
DcsParseArgs ==
    /\ pc = "dcs_start"
    /\ IF command = "-i -o"
       THEN pc' = "dcs_load" /\ error' = error
       ELSE Fail("ValueError")
    /\ UNCHANGED <<command, modelId, fault, bounds, strict, memFiles, profileDoc,
                   device, image, settings, profile, visited, memories, progCalls,
                   openHandles, trace>>

\* memories = json.load(infile)
DcsLoad ==
    /\ pc = "dcs_load"
    /\ memories' = memFiles[1]
    /\ progCalls' = 0
    /\ pc' = "dcs_loop"
    /\ UNCHANGED <<command, modelId, fault, bounds, strict, memFiles, profileDoc,
                   device, image, settings, profile, visited, openHandles, trace,
                   error>>

\* One iteration of `for memory in memories` (progCalls counts the iterations
\* done): random.choice of a code and of a polarity, then the assignments.
DcsAssign ==
    /\ pc = "dcs_loop"
    /\ progCalls < Len(memories)
    /\ \E dcs_code \in DCS_CODES, dcs_polarity \in DCS_POLARITIES :
          memories' = [memories EXCEPT ![progCalls + 1] =
                          AssignDcs(@, dcs_code, dcs_polarity)]
    /\ progCalls' = progCalls + 1
    /\ UNCHANGED <<pc, command, modelId, fault, bounds, strict, memFiles, profileDoc,
                   device, image, settings, profile, visited, openHandles, trace,
                   error>>

\* json.dump(memories, outfile): the output file is memFiles[2].
DcsDump ==
    /\ pc = "dcs_loop"
    /\ progCalls = Len(memories)
    /\ memFiles' = <<memFiles[1], memories>>
    /\ pc' = "dcs_done"
    /\ UNCHANGED <<command, modelId, fault, bounds, strict, profileDoc,
                   device, image, settings, profile, visited, memories, progCalls,
                   openHandles, trace, error>>

NextDcs ==
    \/ DcsParseArgs
    \/ DcsLoad
    \/ DcsAssign
    \/ DcsDump

SpecDcs == InitDcs /\ [][NextDcs]_vars

\* C19: the output of random-dcs-assign has as many memories as the input, in
\* the same order and with every key the tool does not set unchanged, and
\* every memory of it has tone "DTCS", rdcs_code equal to tdcs_code and taken
\* from the DCS code table, and dcs_polarity "NN" or "RR".
C19_OnlyDcsFieldsRewritten ==
    pc = "dcs_done" =>
        LET infile == memFiles[1]
            outfile == memFiles[2]
        IN /\ Len(outfile) = Len(infile)
           /\ \A k \in DOMAIN infile :
                 /\ DOMAIN outfile[k] =
                       DOMAIN infile[k] \cup {"tone", "rdcs_code", "tdcs_code", "dcs_polarity"}
                 /\ \A x \in DOMAIN infile[k] \ {"tone", "rdcs_code", "tdcs_code", "dcs_polarity"} :
                       outfile[k][x] = infile[k][x]
                 /\ outfile[k].tone = "DTCS"
                 /\ outfile[k].rdcs_code = outfile[k].tdcs_code
                 /\ outfile[k].rdcs_code \in DCS_CODES
                 /\ outfile[k].dcs_polarity \in {"NN", "RR"}

C19_Witness ==
    /\ pc = "dcs_done"
    /\ Len(memFiles[1]) = 2
    /\ "tone" \notin DOMAIN memFiles[1][1]
    /\ memFiles[1][2].dcs_polarity = "RN"
    /\ memFiles[1][2].rdcs_code # memFiles[1][2].tdcs_code
    /\ memFiles[2][1].rdcs_code = 71
    /\ memFiles[2][2].rdcs_code = 25
    /\ memFiles[2][1].dcs_polarity # memFiles[2][2].dcs_polarity
    /\ memFiles[2][2].number = 7

====
